---- MODULE Spec2Model ----
(***************************************************************************)
(* haystack: the taxon identification posterior calculator                 *)
(* (haystack/workflow/scripts/calculate_taxa_probabilities.py), run once,  *)
(* repeatedly and in parallel on one result file, and the abundance        *)
(* estimator (scripts/calculate_dirichlet_abundances.py), introduced       *)
(* further down.                                                           *)
(*                                                                         *)
(* Numbers.  Ts/Tv counts and the aggregated totals are small integers     *)
(* (astype(float) is exact on them).  The powers, products, sums and       *)
(* posteriors are float64 values.  A float is modelled as an exact         *)
(* non-negative rational n/d with the special values +inf and NaN, and     *)
(* with a bounded range: a result above FloatMax overflows to +inf, a      *)
(* positive result below 1/FloatMax underflows to 0.  Mantissa rounding    *)
(* is not modelled.  FloatMax is 2^FloatMaxExp, a scaled-down 2^1024.      *)
(*                                                                         *)
(* Taxon names and read identifiers are numbered; the number of a taxon    *)
(* is its rank in the lexicographic order of the names.                    *)
(***************************************************************************)
EXTENDS Integers, Sequences, FiniteSets, TLC

\* ------------------------------------------------------------------ bounds
NTaxa == 2
MaxRows == 4
MaxCalls == 2
NProcs == 2
FloatMaxExp == 8

Taxa == 1..NTaxa
Read_IDs == {1, 2}
Counts == {0, 1}

\* ------------------------------------------------------------------ floats
RECURSIVE Pow2(_)
Pow2(e) == IF e = 0 THEN 1 ELSE 2 * Pow2(e - 1)

FloatMax == Pow2(FloatMaxExp)

RECURSIVE Gcd(_, _)
Gcd(a, b) == IF b = 0 THEN a ELSE Gcd(b, a % b)

Inf == [k |-> "inf", n |-> 1, d |-> 0]
NaN == [k |-> "nan", n |-> 0, d |-> 0]
Zero == [k |-> "fin", n |-> 0, d |-> 1]
One == [k |-> "fin", n |-> 1, d |-> 1]

\* the float64 nearest to the non-negative rational n/d: overflow to +inf,
\* underflow to 0, otherwise the rational itself in lowest terms
Float(n, d) ==
    IF n = 0 THEN Zero
    ELSE IF n > FloatMax * d THEN Inf
    ELSE IF n * FloatMax < d THEN Zero
    ELSE LET g == Gcd(n, d) IN [k |-> "fin", n |-> n \div g, d |-> d \div g]

IsNaN(x) == x.k = "nan"
IsInf(x) == x.k = "inf"
IsFinite(x) == x.k = "fin"
IsZero(x) == x.k = "fin" /\ x.n = 0

\* IEEE multiplication of non-negative values: inf * 0 is NaN
FMul(x, y) ==
    IF IsNaN(x) \/ IsNaN(y) THEN NaN
    ELSE IF IsInf(x) THEN (IF IsZero(y) THEN NaN ELSE Inf)
    ELSE IF IsInf(y) THEN (IF IsZero(x) THEN NaN ELSE Inf)
    ELSE Float(x.n * y.n, x.d * y.d)

\* IEEE addition of non-negative values
FAdd(x, y) ==
    IF IsNaN(x) \/ IsNaN(y) THEN NaN
    ELSE IF IsInf(x) \/ IsInf(y) THEN Inf
    ELSE Float(x.n * y.d + y.n * x.d, x.d * y.d)

\* float(1) / x
FDivOne(x) ==
    IF IsNaN(x) THEN NaN
    ELSE IF IsInf(x) THEN Zero
    ELSE IF IsZero(x) THEN Inf
    ELSE Float(x.d, x.n)

\* base ** e for a finite positive base and an integer-valued exponent.
\* The running product saturates at +inf or 0 exactly when the exact power
\* leaves the float range, the powers of a base being monotone in e.
RECURSIVE FPow(_, _)
FPow(base, e) ==
    IF e = 0 THEN One
    ELSE IF e < 0 THEN FPow([k |-> "fin", n |-> base.d, d |-> base.n], 0 - e)
    ELSE FMul(base, FPow(base, e - 1))

\* x < y on floats that are not NaN
FLess(x, y) ==
    IF IsInf(x) THEN FALSE
    ELSE IF IsInf(y) THEN TRUE
    ELSE x.n * y.d < y.n * x.d

\* ------------------------------------------------------------- input files
\* one line of the mismatch table: columns Taxon, Read_ID, Ts, Tv
Row(t, r, ts, tv) == [Taxon |-> t, Read_ID |-> r, Ts |-> ts, Tv |-> tv]

Absent == <<-1, -1>>
Cells == (Counts \X Counts) \cup {Absent}

RECURSIVE Ascending(_)
Ascending(S) ==
    IF S = {} THEN <<>>
    ELSE LET m == CHOOSE x \in S : \A y \in S : x <= y
         IN <<m>> \o Ascending(S \ {m})

RECURSIVE Reverse(_)
Reverse(s) == IF s = <<>> THEN <<>> ELSE Reverse(Tail(s)) \o <<Head(s)>>

RECURSIVE Pairs(_, _)
Pairs(reads, taxa) ==
    IF reads = <<>> THEN <<>>
    ELSE [i \in 1..Len(taxa) |-> <<taxa[i], Head(reads)>>] \o Pairs(Tail(reads), taxa)

\* the order of the lines in a generated file: by read, and within a read by
\* taxon name descending, so that the lines of a taxon are not contiguous and
\* the taxa do not come in name order
PairSeq == Pairs(Ascending(Read_IDs), Reverse(Ascending(Taxa)))

RECURSIVE FileRows(_, _)
FileRows(f, pairs) ==
    IF pairs = <<>> THEN <<>>
    ELSE LET p == Head(pairs)
             rest == FileRows(f, Tail(pairs))
         IN IF f[p] = Absent THEN rest
            ELSE <<Row(p[1], p[2], f[p][1], f[p][2])>> \o rest

\* every table of at most MaxRows lines with one line per (taxon, read) pair
\* that aligned and non-negative counts; the table without lines is a file that
\* holds the header line only
BoundedTables ==
    {FileRows(f, PairSeq) :
        f \in {g \in [Taxa \X Read_IDs -> Cells] :
                  Cardinality({p \in Taxa \X Read_IDs : g[p] # Absent}) <= MaxRows}}

\* taxa A (Ts = 2, Tv = 1) and B (Ts = 10, Tv = 5) over R = 5 reads
ScenarioTable ==
    << Row(1, 1, 1, 1), Row(1, 2, 1, 0), Row(1, 3, 0, 0), Row(1, 4, 0, 0), Row(1, 5, 0, 0),
       Row(2, 1, 2, 1), Row(2, 2, 2, 1), Row(2, 3, 2, 1), Row(2, 4, 2, 1), Row(2, 5, 2, 1) >>

Tables == BoundedTables \cup {ScenarioTable}

\* a file on disk: zero-sized, or holding a header line and data lines
TsTvFile(rows) == [empty |-> FALSE, rows |-> rows]
EmptyTsTvFile == [empty |-> TRUE, rows |-> <<>>]

Frac(n, d) == [k |-> "fin", n |-> n, d |-> d]
Params(dt, dv, tm, vm) ==
    [delta_t |-> dt, delta_v |-> dv, ts_missing_val |-> tm, tv_missing_val |-> vm]

\* the probability model parameters the json file may hold: delta_t, delta_v > 0
\* and ts_missing_val, tv_missing_val >= 0
ParamSets ==
    { Params(Frac(1, 20), Frac(1, 10), 1, 1),
      Params(Frac(1, 30), Frac(1, 30), 0, 0),
      Params(Frac(1, 2), Frac(1, 4), 2, 1),
      Params(Frac(1, 1), Frac(1, 1), 0, 1),
      Params(Frac(2, 1), Frac(1, 2), 1, 0) }

ParamsFile(p) == [empty |-> FALSE, params |-> p]
EmptyParamsFile == [empty |-> TRUE, params |-> Params(Zero, Zero, 0, 0)]

\* a size that is never zero: the check of the file left out
TsTvSizeUnchecked(file) == 1 + Len(file.rows)

\* os.stat(file).st_size, counted in lines
TsTvSize(file) == IF file.empty THEN 0 ELSE 1 + Len(file.rows)
ParamsSize(file) == IF file.empty THEN 0 ELSE 1

\* the total reads file: its text as a sequence of decimal digits, empty or a
\* number
TotalReadsFiles == {<<>>, <<1, 0>>}
SampleNames == {"s1", "s2"}

\* ---------------------------------------------------- calculate_probabilities
\* float(text): the number the decimal digits spell
RECURSIVE ParseFloat(_)
ParseFloat(text) ==
    IF text = <<>> THEN 0
    ELSE 10 * ParseFloat(SubSeq(text, 1, Len(text) - 1)) + text[Len(text)]

\* len(read_csv(..., usecols=["Read_ID"])["Read_ID"].unique())
ReadCount(rows) == Cardinality({rows[i].Read_ID : i \in 1..Len(rows)})

\* the group keys of groupby("Taxon"), which sorts them
GroupKeys(rows) == Ascending({rows[i].Taxon : i \in 1..Len(rows)})

\* the lines of one group, in file order
RECURSIVE Group(_, _)
Group(rows, taxon) ==
    IF rows = <<>> THEN <<>>
    ELSE IF Head(rows).Taxon = taxon THEN <<Head(rows)>> \o Group(Tail(rows), taxon)
    ELSE Group(Tail(rows), taxon)

\* sum(num) over one column of a group
RECURSIVE SumCol(_, _)
SumCol(num, col) == IF num = <<>> THEN 0 ELSE Head(num)[col] + SumCol(Tail(num), col)

\* the imputed penalty without the one unit above the missing value
ImputeNoPlusOne(num, col, read_count, missing_val) ==
    SumCol(num, col) + (read_count - Len(num)) * missing_val

\* the imputed term with the two counts exchanged
ImputeSwapped(num, col, read_count, missing_val) ==
    SumCol(num, col) + (Len(num) - read_count) * (missing_val + 1)

\* lambda num: sum(num) + (read_count - num.count()) * (missing_val + 1)
Impute(num, col, read_count, missing_val) ==
    SumCol(num, col) + (read_count - Len(num)) * (missing_val + 1)

Columns == <<"Taxon", "Ts", "Tv", "Posterior", "Read_Count", "Total_Reads", "Submatrix", "Sample">>

\* groupby("Taxon").agg(...), reset_index() and the five added columns
Aggregate(rows, model_params, read_count, total_fastq_reads, submatrix, sample_name) ==
    LET keys == GroupKeys(rows)
    IN [i \in 1..Len(keys) |->
          LET num == Group(rows, keys[i])
          IN [Taxon |-> keys[i],
              Ts |-> Impute(num, "Ts", read_count, model_params.ts_missing_val),
              Tv |-> Impute(num, "Tv", read_count, model_params.tv_missing_val),
              Posterior |-> NaN,
              Read_Count |-> read_count,
              Total_Reads |-> total_fastq_reads,
              Submatrix |-> submatrix,
              Sample |-> sample_name]]

\* Series.sum(): NaN entries are skipped (skipna), the empty sum is 0
RECURSIVE SumSkipNa(_)
SumSkipNa(products) ==
    IF products = <<>> THEN Zero
    ELSE IF IsNaN(Head(products)) THEN SumSkipNa(Tail(products))
    ELSE FAdd(Head(products), SumSkipNa(Tail(products)))

\* the difference taken the other way round
MismatchVecReversed(df, row, col, delta) ==
    [j \in 1..Len(df) |-> FPow(delta, row[col] - df[j][col])]

\* mismatch_df[col].subtract(row[col]).rpow(delta)
MismatchVec(df, row, col, delta) == [j \in 1..Len(df) |-> FPow(delta, df[j][col] - row[col])]

\* the two vectors added, not multiplied
PosteriorRowAdded(df, row, model_params) ==
    LET mismatch_t_vec == MismatchVec(df, row, "Ts", model_params.delta_t)
        mismatch_v_vec == MismatchVec(df, row, "Tv", model_params.delta_v)
        products == [j \in 1..Len(df) |-> FAdd(mismatch_t_vec[j], mismatch_v_vec[j])]
    IN FDivOne(SumSkipNa(products))

\* the body of the loop for one row: 1 / sum of the products
PosteriorRow(df, row, model_params) ==
    LET mismatch_t_vec == MismatchVec(df, row, "Ts", model_params.delta_t)
        mismatch_v_vec == MismatchVec(df, row, "Tv", model_params.delta_v)
        products == [j \in 1..Len(df) |-> FMul(mismatch_t_vec[j], mismatch_v_vec[j])]
        denominator_summation == SumSkipNa(products)
    IN FDivOne(denominator_summation)

\* mismatch_df.iloc[index, 3] = value
SetPosterior(df, index, value) == [df EXCEPT ![index][Columns[3 + 1]] = value]

\* for index, row in mismatch_df.iterrows(): rows index .. Len(df)
RECURSIVE PosteriorLoop(_, _, _)
PosteriorLoop(df, index, model_params) ==
    IF index > Len(df) THEN df
    ELSE PosteriorLoop(SetPosterior(df, index, PosteriorRow(df, df[index], model_params)),
                       index + 1, model_params)

\* ascending=True
PrecedesAscending(a, b) ==
    IF IsNaN(a.Posterior) THEN FALSE
    ELSE IF IsNaN(b.Posterior) THEN TRUE
    ELSE FLess(a.Posterior, b.Posterior)

\* row a must come before row b under sort_values(by="Posterior", ascending=False),
\* na_position="last"
Precedes(a, b) ==
    IF IsNaN(a.Posterior) THEN FALSE
    ELSE IF IsNaN(b.Posterior) THEN TRUE
    ELSE FLess(b.Posterior, a.Posterior)

Orders(n) == {p \in [1..n -> 1..n] : \A i, j \in 1..n : i # j => p[i] # p[j]}

\* the indexers a sort of df by Posterior, descending, may return: the default
\* kind="quicksort" is not stable, so they are all the orders of the rows in
\* which no row comes after a row it must precede
Indexers(df) ==
    {q \in Orders(Len(df)) : \A i, j \in 1..Len(df) : i < j => ~Precedes(df[q[j]], df[q[i]])}

\* df.take(indexer)
Take(df, indexer) == [i \in 1..Len(df) |-> df[indexer[i]]]

\* mismatch_df.sort_values(by="Posterior", ascending=False): the frames it may
\* produce
SortValues(df) == {Take(df, p) : p \in Indexers(df)}

\* the values of the sort key, the input of the sorting routine
SortKey(df) == [i \in 1..Len(df) |-> df[i].Posterior]

\* a sorting routine that orders equal keys anew at every call
ArgsortAnew(sorted, df) == Indexers(df)

\* the indexer the sorting routine returns for df.  The routine is a function
\* of the key values, fixed by the build: sorted holds its results so far, and
\* on key values it has not seen it may order equal keys in any way.
Argsort(sorted, df) ==
    IF SortKey(df) \in DOMAIN sorted THEN {sorted[SortKey(df)]} ELSE Indexers(df)

HeaderLine ==
    [header |-> TRUE, Taxon |-> 0, Ts |-> 0, Tv |-> 0, Posterior |-> NaN, Read_Count |-> 0,
     Total_Reads |-> 0, Submatrix |-> "Submatrix", Sample |-> "Sample"]

DataLine(row) ==
    [header |-> FALSE, Taxon |-> row.Taxon, Ts |-> row.Ts, Tv |-> row.Tv,
     Posterior |-> row.Posterior, Read_Count |-> row.Read_Count,
     Total_Reads |-> row.Total_Reads, Submatrix |-> row.Submatrix, Sample |-> row.Sample]

\* mismatch_df.to_csv(sep="\t", index=False): the header line, then one line per row
ToCsv(df) == <<HeaderLine>> \o [i \in 1..Len(df) |-> DataLine(df[i])]

\* with open(outputfile, "w"): the file is truncated first
OpenW(file, lines) == lines

\* with open(outputfile, "a") as output_handle: the lines go after the content
OpenA(file, lines) == file \o lines

\* the frame before the sort
Posteriors(rows, model_params, total_fastq_reads, submatrix, sample_name) ==
    PosteriorLoop(
        Aggregate(rows, model_params, ReadCount(rows), total_fastq_reads, submatrix, sample_name),
        1, model_params)

\* ============================================ calculate_dirichlet_abundances
\* (scripts/calculate_dirichlet_abundances.py)
\* The masses, their sum and the mean abundances are float64 values that may
\* be negative; they are far from the ends of the float range, so they are
\* modelled as exact rationals n/d, d > 0, with the IEEE results of a division
\* by zero: +inf, -inf and NaN.
NegInf == [k |-> "-inf", n |-> -1, d |-> 0]

Abs(n) == IF n < 0 THEN 0 - n ELSE n

\* the rational n/d, d # 0, in lowest terms with a positive denominator
Rational(n, d) ==
    LET g == Gcd(Abs(n), Abs(d))
        sign == IF d < 0 THEN -1 ELSE 1
    IN [k |-> "fin", n |-> sign * (n \div g), d |-> sign * (d \div g)]

\* sums, differences and quotients of finite values
RAdd(x, y) == Rational(x.n * y.d + y.n * x.d, x.d * y.d)
RSub(x, y) == Rational(x.n * y.d - y.n * x.d, x.d * y.d)
RDiv(x, y) ==
    IF y.n # 0 THEN Rational(x.n * y.d, x.d * y.n)
    ELSE IF x.n = 0 THEN NaN
    ELSE IF x.n > 0 THEN Inf
    ELSE NegInf

\* x < y on values that are not NaN
RLess(x, y) ==
    IF x = y THEN FALSE
    ELSE IF x.k = "-inf" \/ y.k = "inf" THEN TRUE
    ELSE IF x.k = "inf" \/ y.k = "-inf" THEN FALSE
    ELSE x.n * y.d < y.n * x.d

Int2Float(n) == Rational(n, 1)

\* ------------------------------------------------------------- input files
\* taxon names, in lexicographic order
Names == <<"A", "B", "C", "D", "Dark_Matter", "Grey_Matter">>
NameRank(name) == CHOOSE i \in 1..Len(Names) : Names[i] = name

\* one line of the assignment table: columns Taxon, Read_ID, Dirichlet_Assignment
Assignment(t, r, w) == [Taxon |-> t, Read_ID |-> r, Dirichlet_Assignment |-> w]

\* the weights a line may carry, and the mark of a (taxon, read) pair without
\* a line
Weights == {Zero, Frac(1, 2), One}
NoLine == [k |-> "absent", n |-> 0, d |-> 1]

RECURSIVE AssignmentRows(_, _)
AssignmentRows(f, pairs) ==
    IF pairs = <<>> THEN <<>>
    ELSE LET p == Head(pairs)
             rest == AssignmentRows(f, Tail(pairs))
         IN IF f[p] = NoLine THEN rest
            ELSE <<Assignment(Names[p[1]], p[2], f[p])>> \o rest

\* the sum of the weights of the lines of read r
RECURSIVE ReadWeight(_, _)
ReadWeight(rows, r) ==
    IF rows = <<>> THEN Zero
    ELSE IF Head(rows).Read_ID = r
         THEN RAdd(Head(rows).Dirichlet_Assignment, ReadWeight(Tail(rows), r))
    ELSE ReadWeight(Tail(rows), r)

\* every table of at most MaxRows lines with one line per (taxon, read) pair
\* that aligned, weights in [0, 1] and a sum of at most 1 per read; the table
\* without lines is a file that holds the header line only
BoundedAssignments ==
    {rows \in {AssignmentRows(f, PairSeq) :
                  f \in {g \in [Taxa \X Read_IDs -> Weights \cup {NoLine}] :
                            Cardinality({p \in Taxa \X Read_IDs : g[p] # NoLine}) <= MaxRows}} :
        \A r \in Read_IDs : ~RLess(One, ReadWeight(rows, r))}

\* five reads, each with one candidate taxon of weight 1/5
FifthsTable ==
    << Assignment("A", 1, Frac(1, 5)), Assignment("A", 2, Frac(1, 5)),
       Assignment("B", 3, Frac(1, 5)), Assignment("B", 4, Frac(1, 5)),
       Assignment("B", 5, Frac(1, 5)) >>

\* two reads and two taxa, one of them with the name of a pseudo-taxon
PseudoNamedTables ==
    { <<Assignment("A", 1, One), Assignment("Dark_Matter", 2, Frac(1, 2))>>,
      <<Assignment("A", 1, One), Assignment("Grey_Matter", 2, Frac(1, 2))>>,
      <<Assignment("A", 1, Zero), Assignment("Dark_Matter", 2, Zero)>> }

AssignmentTables == BoundedAssignments \cup {FifthsTable} \cup PseudoNamedTables

AssignmentFile(rows) == [empty |-> FALSE, rows |-> rows]
EmptyAssignmentFile == [empty |-> TRUE, rows |-> <<>>]
AssignmentFiles == {EmptyAssignmentFile} \cup {AssignmentFile(rows) : rows \in AssignmentTables}

\* one line of the p-value table, which has no header line: species, pvalue
PValue(species, pvalue) == [species |-> species, pvalue |-> pvalue]

\* the p-value tables: none, one species, every taxon (the first with two
\* p-values), every taxon but the last
PValueTables ==
    { <<>>,
      <<PValue(Names[1], Frac(1, 2))>>,
      <<PValue(Names[1], One)>> \o [i \in 1..NTaxa |-> PValue(Names[i], Frac(1, 2))],
      [i \in 1..(NTaxa - 1) |-> PValue(Names[i], Frac(1, 4))] \o <<PValue("D", One)>> }

\* a file without lines is zero-sized
PValuesFile(rows) == [empty |-> rows = <<>>, rows |-> rows]
PValuesFiles == {PValuesFile(rows) : rows \in PValueTables}

\* the total reads file: empty, or the digits of 0 or 10
TotalReadsTexts == {<<>>, <<0>>, <<1, 0>>}

\* the three input files of an invocation: all of them with content, or some
\* of them empty beside small ones
SmallAssignmentFiles ==
    {EmptyAssignmentFile, AssignmentFile(<<>>),
     AssignmentFile(<<Assignment("B", 1, One), Assignment("A", 2, Zero)>>)}

AbundanceInputs ==
    ((AssignmentFiles \ {EmptyAssignmentFile}) \X (PValuesFiles \ {PValuesFile(<<>>)})
        \X (TotalReadsTexts \ {<<>>}))
    \cup (SmallAssignmentFiles \X PValuesFiles \X TotalReadsTexts)

\* os.stat(file).st_size, counted in lines, for the three input files
AssignmentSize(file) == IF file.empty THEN 0 ELSE 1 + Len(file.rows)
\* a size that is never zero: the assert on the p-value file always passes
PValuesSizeUnchecked(file) == 1

PValuesSize(file) == Len(file.rows)
TotalReadsSize(text) == Len(text)

\* ------------------------------------------------------------ computation
\* scipy.stats.hmean of the p-values of one species: n / sum of 1 / x
RECURSIVE SumInverse(_, _)
SumInverse(rows, species) ==
    IF rows = <<>> THEN Zero
    ELSE IF Head(rows).species = species
         THEN RAdd(RDiv(One, Head(rows).pvalue), SumInverse(Tail(rows), species))
    ELSE SumInverse(Tail(rows), species)

Hmean(rows, species) ==
    RDiv(Int2Float(Cardinality({i \in 1..Len(rows) : rows[i].species = species})),
         SumInverse(rows, species))

Species(rows) == {rows[i].species : i \in 1..Len(rows)}

\* t_test_vector: the harmonic mean per species, and NaN for the two
\* pseudo-taxa
TTestVector(rows) ==
    [name \in Species(rows) \cup {"Dark_Matter", "Grey_Matter"} |->
        IF name \in {"Dark_Matter", "Grey_Matter"} THEN NaN ELSE Hmean(rows, name)]

\* the distinct values of a column
ReadIds(rows) == {rows[i].Read_ID : i \in 1..Len(rows)}
TaxonSet(rows) == {rows[i].Taxon : i \in 1..Len(rows)}

\* the names of S in lexicographic order, as groupby sorts its keys
RECURSIVE SortedNames(_)
SortedNames(S) ==
    IF S = {} THEN <<>>
    ELSE LET m == CHOOSE x \in S : \A y \in S : NameRank(x) <= NameRank(y)
         IN <<m>> \o SortedNames(S \ {m})

\* one per read that has a line of weight 0
GreyMatterAnyZero(rows) ==
    Int2Float(Cardinality({r \in ReadIds(rows) :
        \E i \in 1..Len(rows) : rows[i].Read_ID = r /\ rows[i].Dirichlet_Assignment = Zero}))

\* one per read whose weights do not sum to 0
GreyMatterNonZero(rows) ==
    Int2Float(Cardinality({r \in ReadIds(rows) : ReadWeight(rows, r) # Zero}))

\* ts_tv_group.where(ts_tv_group == 0).replace(0, 1).fillna(0).sum(): one per
\* read whose weights sum to 0
GreyMatter(rows) ==
    Int2Float(Cardinality({r \in ReadIds(rows) : ReadWeight(rows, r) = Zero}))

\* the sum of the weights of the lines of taxon t
RECURSIVE TaxonWeight(_, _)
TaxonWeight(rows, t) ==
    IF rows = <<>> THEN Zero
    ELSE IF Head(rows).Taxon = t
         THEN RAdd(Head(rows).Dirichlet_Assignment, TaxonWeight(Tail(rows), t))
    ELSE TaxonWeight(Tail(rows), t)

Mass(name, mass) == [name |-> name, mass |-> mass]

\* ts_tv_matrix.groupby("Taxon").sum().squeeze().astype(float)
TaxonMasses(rows) ==
    LET keys == SortedNames(TaxonSet(rows))
    IN [i \in 1..Len(keys) |-> Mass(keys[i], TaxonWeight(rows, keys[i]))]

\* a.loc[name] = mass: the entry of that name is set, or a new entry is added
\* at the end
SetLoc(a, name, mass) ==
    IF \E i \in 1..Len(a) : a[i].name = name
    THEN [i \in 1..Len(a) |-> IF a[i].name = name THEN Mass(name, mass) ELSE a[i]]
    ELSE Append(a, Mass(name, mass))

\* a.loc[name]
Loc(a, name) == a[CHOOSE i \in 1..Len(a) : a[i].name = name].mass

\* total_fastq_reads - reads_in_bams, taken the other way round
RemainingDarkMatterSwapped(total_fastq_reads, reads_in_bams) ==
    RSub(Int2Float(reads_in_bams), total_fastq_reads)

\* remaining_dark_matter = total_fastq_reads - reads_in_bams
RemainingDarkMatter(total_fastq_reads, reads_in_bams) ==
    RSub(total_fastq_reads, Int2Float(reads_in_bams))

\* the vector a: the taxa, then Grey_Matter, then Dark_Matter
MassVector(rows, total_fastq_reads) ==
    SetLoc(SetLoc(TaxonMasses(rows), "Grey_Matter", GreyMatter(rows)),
           "Dark_Matter", RemainingDarkMatter(total_fastq_reads, Cardinality(ReadIds(rows))))

\* b = a.sum()
RECURSIVE SumMasses(_)
SumMasses(a) == IF a = <<>> THEN Zero ELSE RAdd(Head(a).mass, SumMasses(Tail(a)))

\* the division without the smoothing: a.divide(b)
PosteriorAbundanceMeanUnsmoothed(a) ==
    LET b == SumMasses(a)
    IN [i \in 1..Len(a) |-> RDiv(a[i].mass, b)]

\* a.add(1).divide(b + len(a)), before the sort
PosteriorAbundanceMean(a) ==
    LET b == SumMasses(a)
    IN [i \in 1..Len(a) |-> RDiv(RAdd(a[i].mass, One), RAdd(b, Int2Float(Len(a))))]

\* value x must come before value y under sort_values(ascending=False),
\* na_position="last"
MeanPrecedes(x, y) ==
    IF IsNaN(x) THEN FALSE
    ELSE IF IsNaN(y) THEN TRUE
    ELSE RLess(y, x)

\* the orders of the positions S in which no value comes after a value it must
\* precede: the first position is one that no other has to precede
RECURSIVE MeanOrders(_, _)
MeanOrders(means, S) ==
    IF S = {} THEN {<<>>}
    ELSE UNION {{<<x>> \o q : q \in MeanOrders(means, S \ {x})} :
                   x \in {y \in S : \A z \in S : ~MeanPrecedes(means[z], means[y])}}

\* the indexers the sort of the means may return: kind="quicksort" is not
\* stable, so equal means come in any order
MeanIndexers(means) == MeanOrders(means, 1..Len(means))

\* the indexer the sorting routine returns for the means
MeanArgsort(sorted, means) ==
    IF means \in DOMAIN sorted THEN {sorted[means]} ELSE MeanIndexers(means)

\* scipy.stats.beta.interval(0.95, alpha, beta): NaN bounds for a shape
\* parameter that is not positive, else the 0.025 and 0.975 quantiles, which
\* are carried as terms
Ppf(q, alpha, beta) ==
    IF alpha.n <= 0 \/ beta.n <= 0 THEN NaN
    ELSE [k |-> "ppf", q |-> q, alpha |-> alpha, beta |-> beta]

BetaInterval(alpha, beta) == <<Ppf("0.025", alpha, beta), Ppf("0.975", alpha, beta)>>

\* round(ci * b) for a bound that is a number, carried as a term
Round(ci, b) == IF IsNaN(ci) THEN NaN ELSE [k |-> "round", ci |-> ci, times |-> b]

\* one row of the output frame
AbundanceRow(a, name, mean, t_test_vector) ==
    LET ai == Loc(a, name)
        b == SumMasses(a)
        ci == BetaInterval(RAdd(ai, One), RSub(RSub(RAdd(b, Int2Float(Len(a))), ai), One))
    IN [Taxon |-> name,
        Mean_Posterior_Abundance |-> mean,
        CI_lower |-> ci[1],
        CI_upper |-> ci[2],
        Minimum_Read_Num |-> Round(ci[1], b),
        Maximum_Read_Num |-> Round(ci[2], b),
        Dirichlet_Read_Num |-> ai,
        Fisher_Exact_Pvalue |->
            IF name \in DOMAIN t_test_vector THEN t_test_vector[name] ELSE NaN]

\* the error the loop body raises on the row of that name, if any: round()
\* of a NaN bound where the build raises on it, then the lookup of a name that
\* t_test_vector does not hold
RowError(a, name, t_test_vector, raises_on_nan) ==
    LET row == AbundanceRow(a, name, Zero, t_test_vector)
    IN IF raises_on_nan /\ (IsNaN(row.CI_lower) \/ IsNaN(row.CI_upper)) THEN "ValueError"
       ELSE IF name \notin DOMAIN t_test_vector THEN "KeyError"
       ELSE ""

\* the first error of the loop over the rows index .. Len(names), "" if none
RECURSIVE LoopError(_, _, _, _, _)
LoopError(a, names, index, t_test_vector, raises_on_nan) ==
    IF index > Len(names) THEN ""
    ELSE IF RowError(a, names[index], t_test_vector, raises_on_nan) # ""
         THEN RowError(a, names[index], t_test_vector, raises_on_nan)
    ELSE LoopError(a, names, index + 1, t_test_vector, raises_on_nan)

\* the frame after the loop, for the means in the order of the indexer
PosteriorAbundance(a, indexer, t_test_vector) ==
    LET means == PosteriorAbundanceMean(a)
    IN [i \in 1..Len(a) |->
          AbundanceRow(a, a[indexer[i]].name, means[indexer[i]], t_test_vector)]

AbundanceHeader ==
    [header |-> TRUE, Taxon |-> "Taxon", Mean_Posterior_Abundance |-> NaN, CI_lower |-> NaN,
     CI_upper |-> NaN, Minimum_Read_Num |-> NaN, Maximum_Read_Num |-> NaN,
     Dirichlet_Read_Num |-> NaN, Fisher_Exact_Pvalue |-> NaN]

AbundanceLine(row) ==
    [header |-> FALSE, Taxon |-> row.Taxon,
     Mean_Posterior_Abundance |-> row.Mean_Posterior_Abundance,
     CI_lower |-> row.CI_lower, CI_upper |-> row.CI_upper,
     Minimum_Read_Num |-> row.Minimum_Read_Num, Maximum_Read_Num |-> row.Maximum_Read_Num,
     Dirichlet_Read_Num |-> row.Dirichlet_Read_Num,
     Fisher_Exact_Pvalue |-> row.Fisher_Exact_Pvalue]

\* posterior_abundance.to_csv(sep="\t", index=False, header=True)
AbundanceCsv(frame) == <<AbundanceHeader>> \o [i \in 1..Len(frame) |-> AbundanceLine(frame[i])]

\* the file opened for appending: the new lines follow those it holds
WriteFileAppending(file, lines) == file \o lines

\* with open(sample_abundance, "w"): the file holds the new lines only
WriteFile(file, lines) == lines

\* squeeze() turns a one-element result into a scalar, and the next method
\* call on it raises: for a p-value table of one species, an assignment table
\* of one read, an assignment table of one taxon
Squeezed(pvalue_rows, rows) ==
    \/ Cardinality(Species(pvalue_rows)) = 1
    \/ Cardinality(ReadIds(rows)) = 1
    \/ Cardinality(TaxonSet(rows)) = 1

\* ------------------------------------------------------------------- state
VARIABLES
    ts_tv_matrix_file,  \* the mismatch table file on disk
    params_file,        \* the model parameters file on disk
    outputfile,         \* the lines of the result file
    mismatch_df,        \* the frame of the last invocation, as it was written
    result,             \* how the last invocation ended
    stdout,             \* what the last invocation printed
    calls,              \* the number of invocations so far
    argv,               \* the inputs of the last invocation
    quicksort,          \* the sorting routine: its results on the keys sorted so far
    pc,                 \* parallel invocations: where each process is
    frames,             \* parallel invocations: the sorted frame of each process
    buffer,             \* parallel invocations: the lines a process has still to write
    lock,               \* parallel invocations: the process in its append step
    ts_tv_file,         \* abundances: the assignment table file on disk
    pvaluesfile,        \* abundances: the p-value table file on disk
    total_sample_fastq_reads,   \* abundances: the total reads file on disk
    sample_abundance,   \* abundances: the lines of the abundance file
    posterior_abundance,        \* abundances: the frame of the last invocation
    round_nan           \* abundances: what round() of a NaN does in this build

par_vars == <<pc, frames, buffer, lock>>

abundance_vars == <<ts_tv_file, pvaluesfile, total_sample_fastq_reads, sample_abundance,
                    posterior_abundance, round_nan>>

vars == <<ts_tv_matrix_file, params_file, outputfile, mismatch_df, result, stdout, calls,
          argv, quicksort, par_vars, abundance_vars>>

\* the inputs of an invocation: the two files as they are, the sample name and
\* the text of the total reads file
Inputs(sample_name, total_fastq_reads) ==
    [ts_tv_matrix_file |-> ts_tv_matrix_file, params_file |-> params_file,
     sample_name |-> sample_name, total_fastq_reads |-> total_fastq_reads]

NoInputs == [sample_name |-> ""]
Unsorted == <<>>

\* the processes that run the script in parallel on one result file
Procs == 1..NProcs
NoWriter == 0

NotStarted ==
    /\ pc = [p \in Procs |-> "start"]
    /\ frames = [p \in Procs |-> <<>>]
    /\ buffer = [p \in Procs |-> <<>>]
    /\ lock = NoWriter

\* the abundance script is not part of the run
NoAbundances ==
    /\ ts_tv_file = EmptyAssignmentFile
    /\ pvaluesfile = PValuesFile(<<>>)
    /\ total_sample_fastq_reads = <<>>
    /\ sample_abundance = <<>>
    /\ posterior_abundance = <<>>
    /\ round_nan = "raises ValueError"

Idle == [status |-> "idle", error |-> "", message |-> "", file |-> ""]
Returned == [status |-> "returned", error |-> "", message |-> "", file |-> ""]
Raised(error, message, file) ==
    [status |-> "raised", error |-> error, message |-> message, file |-> file]

Init ==
    /\ ts_tv_matrix_file \in {EmptyTsTvFile} \cup {TsTvFile(rows) : rows \in Tables}
    /\ params_file \in {EmptyParamsFile} \cup {ParamsFile(p) : p \in ParamSets}
    /\ outputfile = <<>>
    /\ mismatch_df = <<>>
    /\ result = Idle
    /\ stdout = <<>>
    /\ calls = 0
    /\ argv = NoInputs
    /\ quicksort = Unsorted
    /\ NotStarted
    /\ NoAbundances

\* assert os.stat(ts_tv_matrix_file).st_size fails
TsTvAssertFails ==
    /\ TsTvSize(ts_tv_matrix_file) = 0
    /\ result' = Raised("AssertionError", "The ts_tv count file is empty", "ts_tv_matrix_file")
    /\ stdout' = <<>>
    /\ mismatch_df' = <<>>
    /\ calls' = calls + 1
    /\ UNCHANGED <<ts_tv_matrix_file, params_file, outputfile, quicksort>>

\* assert os.stat(params_file).st_size fails
ParamsAssertFails ==
    /\ TsTvSize(ts_tv_matrix_file) # 0
    /\ ParamsSize(params_file) = 0
    /\ result' = Raised("AssertionError", "The probability model parameters file is empty",
                        "params_file")
    /\ stdout' = <<>>
    /\ mismatch_df' = <<>>
    /\ calls' = calls + 1
    /\ UNCHANGED <<ts_tv_matrix_file, params_file, outputfile, quicksort>>

\* float(open(total_fastq_reads).read()) raises on the empty text
TotalReadsRaises(total_fastq_reads) ==
    /\ TsTvSize(ts_tv_matrix_file) # 0
    /\ ParamsSize(params_file) # 0
    /\ total_fastq_reads = <<>>
    /\ result' = Raised("ValueError", "could not convert string to float", "total_fastq_reads")
    /\ stdout' = <<>>
    /\ mismatch_df' = <<>>
    /\ calls' = calls + 1
    /\ UNCHANGED <<ts_tv_matrix_file, params_file, outputfile, quicksort>>

\* calculate_probabilities runs to its end and appends to the result file
\* (\E over a one-element set names a value that is computed once)
calculate_probabilities(sample_name, total_fastq_reads, submatrix) ==
    /\ total_fastq_reads # <<>>
    /\ LET rows == ts_tv_matrix_file.rows
           read_count == ReadCount(rows)
       IN /\ stdout' = IF read_count = 0 THEN <<"File is empty, moving on.">> ELSE <<>>
          /\ \E df \in {Posteriors(rows, params_file.params, ParseFloat(total_fastq_reads),
                                   submatrix, sample_name)} :
                \E indexer \in Argsort(quicksort, df) :
                   /\ quicksort' = (SortKey(df) :> indexer) @@ quicksort
                   /\ \E sorted \in {Take(df, indexer)} :
                         /\ mismatch_df' = sorted
                         /\ outputfile' = OpenA(outputfile, ToCsv(sorted))
    /\ result' = Returned
    /\ calls' = calls + 1
    /\ UNCHANGED <<ts_tv_matrix_file, params_file>>

\* both asserts pass and calculate_probabilities is called with "all taxa"
Completes(sample_name, total_fastq_reads) ==
    /\ TsTvSize(ts_tv_matrix_file) # 0
    /\ ParamsSize(params_file) # 0
    /\ calculate_probabilities(sample_name, total_fastq_reads, "all taxa")

\* the submatrices argument read: the label of the block follows it
calculate_taxa_probabilities_by_submatrix(sample_name, total_fastq_reads, submatrices) ==
    /\ argv' = Inputs(sample_name, total_fastq_reads)
    /\ \/ TsTvAssertFails
       \/ ParamsAssertFails
       \/ TotalReadsRaises(total_fastq_reads)
       \/ /\ TsTvSize(ts_tv_matrix_file) # 0
          /\ ParamsSize(params_file) # 0
          /\ calculate_probabilities(sample_name, total_fastq_reads,
                                     IF submatrices THEN "submatrix" ELSE "all taxa")

\* one invocation of calculate_taxa_probabilities; the submatrices argument is
\* not read
calculate_taxa_probabilities(sample_name, total_fastq_reads, submatrices) ==
    /\ argv' = Inputs(sample_name, total_fastq_reads)
    /\ \/ TsTvAssertFails
       \/ ParamsAssertFails
       \/ TotalReadsRaises(total_fastq_reads)
       \/ Completes(sample_name, total_fastq_reads)

\* an invocation with any sample name, any total reads file and a submatrices
\* setting among those given
Invoke(settings) ==
    \E sample_name \in SampleNames, total_fastq_reads \in TotalReadsFiles,
       submatrices \in settings :
        calculate_taxa_probabilities(sample_name, total_fastq_reads, submatrices)

\* one sample, one invocation, submatrices switched off
Next == calls < 1 /\ Invoke({FALSE}) /\ UNCHANGED <<par_vars, abundance_vars>>

Spec == Init /\ [][Next]_vars

\* -------------------------------------------- several invocations, one file
\* the workflow runs the script again, for another chunk or after the input
\* files were replaced: the small files it may find
LogTables ==
    { <<>>,
      <<Row(2, 1, 0, 0), Row(1, 1, 0, 0)>>,
      <<Row(2, 1, 0, 0), Row(1, 1, 1, 0), Row(1, 2, 0, 1)>> }

LogTsTvFiles == {EmptyTsTvFile} \cup {TsTvFile(rows) : rows \in LogTables}
LogParamsFiles == {EmptyParamsFile, ParamsFile(Params(Frac(1, 2), Frac(1, 2), 0, 0))}

InitLog ==
    /\ ts_tv_matrix_file \in LogTsTvFiles
    /\ params_file \in LogParamsFiles
    /\ outputfile = <<>>
    /\ mismatch_df = <<>>
    /\ result = Idle
    /\ stdout = <<>>
    /\ calls = 0
    /\ argv = NoInputs
    /\ quicksort = Unsorted
    /\ NotStarted
    /\ NoAbundances

\* the input files are replaced between two invocations
Stage ==
    /\ ts_tv_matrix_file' \in LogTsTvFiles
    /\ params_file' \in LogParamsFiles
    /\ UNCHANGED <<outputfile, mismatch_df, result, stdout, calls, argv, quicksort>>
    /\ UNCHANGED <<par_vars, abundance_vars>>

NextLog ==
    \/ Stage
    \/ calls < MaxCalls /\ Invoke(BOOLEAN) /\ UNCHANGED <<par_vars, abundance_vars>>

SpecLog == InitLog /\ [][NextLog]_vars

\* ------------------------------------- parallel invocations, one result file
\* The workflow starts one process per chunk; all of them append to the same
\* result file.  A process computes its frame on its own; its append step, the
\* with block of open(outputfile, "a") and to_csv, runs from the open to the
\* close and writes the block line by line (the finest grain at which the
\* buffered handle may reach the file).  The caller serializes the append
\* steps: a process enters its append step when no other process is in one.
seq_vars == <<mismatch_df, result, stdout, calls, argv, abundance_vars>>

\* no process is in its append step
AppendStepNoLock(writer) == TRUE

AppendStepFree(writer) == writer = NoWriter

\* one of the asserts fails, or the total reads file does not hold a number
ParRaises(p) ==
    /\ pc[p] = "start"
    /\ \/ TsTvSize(ts_tv_matrix_file) = 0
       \/ ParamsSize(params_file) = 0
       \/ \E total_fastq_reads \in TotalReadsFiles : total_fastq_reads = <<>>
    /\ pc' = [pc EXCEPT ![p] = "raised"]
    /\ UNCHANGED <<ts_tv_matrix_file, params_file, outputfile, quicksort, frames, buffer, lock,
                   seq_vars>>

\* lines 26 to 97 of one process: the frame, sorted
ParComputes(p) ==
    /\ pc[p] = "start"
    /\ TsTvSize(ts_tv_matrix_file) # 0
    /\ ParamsSize(params_file) # 0
    /\ \E sample_name \in SampleNames, total_fastq_reads \in TotalReadsFiles \ {<<>>} :
          \E df \in {Posteriors(ts_tv_matrix_file.rows, params_file.params,
                                 ParseFloat(total_fastq_reads), "all taxa", sample_name)} :
             \E indexer \in Argsort(quicksort, df) :
                /\ quicksort' = (SortKey(df) :> indexer) @@ quicksort
                /\ frames' = [frames EXCEPT ![p] = Take(df, indexer)]
    /\ pc' = [pc EXCEPT ![p] = "computed"]
    /\ UNCHANGED <<ts_tv_matrix_file, params_file, outputfile, buffer, lock, seq_vars>>

\* open(outputfile, "a") once the append step is free; to_csv fills the handle
ParOpens(p) ==
    /\ pc[p] = "computed"
    /\ AppendStepFree(lock)
    /\ lock' = p
    /\ outputfile' = OpenA(outputfile, <<>>)
    /\ buffer' = [buffer EXCEPT ![p] = ToCsv(frames[p])]
    /\ pc' = [pc EXCEPT ![p] = "open"]
    /\ UNCHANGED <<ts_tv_matrix_file, params_file, quicksort, frames, seq_vars>>

\* the handle writes its next line at the end of the file
ParWrites(p) ==
    /\ pc[p] = "open"
    /\ buffer[p] # <<>>
    /\ outputfile' = Append(outputfile, Head(buffer[p]))
    /\ buffer' = [buffer EXCEPT ![p] = Tail(buffer[p])]
    /\ UNCHANGED <<ts_tv_matrix_file, params_file, quicksort, pc, frames, lock, seq_vars>>

\* the with block ends: the handle is closed and the append step is over
ParCloses(p) ==
    /\ pc[p] = "open"
    /\ buffer[p] = <<>>
    /\ pc' = [pc EXCEPT ![p] = "done"]
    /\ lock' = IF lock = p THEN NoWriter ELSE lock
    /\ UNCHANGED <<ts_tv_matrix_file, params_file, outputfile, quicksort, frames, buffer,
                   seq_vars>>

NextPar ==
    \E p \in Procs :
        \/ ParRaises(p)
        \/ ParComputes(p)
        \/ ParOpens(p)
        \/ ParWrites(p)
        \/ ParCloses(p)

SpecPar == InitLog /\ [][NextPar]_vars

\* ------------------------------------------ calculate_dirichlet_abundances
identification_vars ==
    <<ts_tv_matrix_file, params_file, outputfile, mismatch_df, stdout, par_vars>>

\* the inputs of an invocation: the three files as they are
AbundanceArgv ==
    [ts_tv_file |-> ts_tv_file, pvaluesfile |-> pvaluesfile,
     total_sample_fastq_reads |-> total_sample_fastq_reads]

InitAbundance ==
    /\ \E inputs \in AbundanceInputs :
          /\ ts_tv_file = inputs[1]
          /\ pvaluesfile = inputs[2]
          /\ total_sample_fastq_reads = inputs[3]
    /\ sample_abundance = <<>>
    /\ posterior_abundance = <<>>
    /\ round_nan \in {"raises ValueError", "returns nan"}
    /\ ts_tv_matrix_file = EmptyTsTvFile
    /\ params_file = EmptyParamsFile
    /\ outputfile = <<>>
    /\ mismatch_df = <<>>
    /\ result = Idle
    /\ stdout = <<>>
    /\ calls = 0
    /\ argv = NoInputs
    /\ quicksort = Unsorted
    /\ NotStarted

\* an invocation that raises: nothing is written
AbundanceRaises(error, message, file) ==
    /\ result' = Raised(error, message, file)
    /\ posterior_abundance' = <<>>
    /\ calls' = calls + 1
    /\ UNCHANGED <<ts_tv_file, pvaluesfile, total_sample_fastq_reads, sample_abundance,
                   round_nan, identification_vars>>

\* assert os.stat(ts_tv_file).st_size fails
AssignmentAssertFails ==
    /\ AssignmentSize(ts_tv_file) = 0
    /\ AbundanceRaises("AssertionError", "The ts_tv count file is empty", "ts_tv_file")
    /\ UNCHANGED quicksort

\* assert os.stat(pvaluesfile).st_size fails
PValuesAssertFails ==
    /\ AssignmentSize(ts_tv_file) # 0
    /\ PValuesSize(pvaluesfile) = 0
    /\ AbundanceRaises("AssertionError", "The t-test p values file is empty", "pvaluesfile")
    /\ UNCHANGED quicksort

\* assert os.stat(total_sample_fastq_reads).st_size fails
TotalReadsAssertFails ==
    /\ AssignmentSize(ts_tv_file) # 0
    /\ PValuesSize(pvaluesfile) # 0
    /\ TotalReadsSize(total_sample_fastq_reads) = 0
    /\ AbundanceRaises("AssertionError", "The total fastq reads file is empty",
                       "total_sample_fastq_reads")
    /\ UNCHANGED quicksort

AssertsPass ==
    /\ AssignmentSize(ts_tv_file) # 0
    /\ PValuesSize(pvaluesfile) # 0
    /\ TotalReadsSize(total_sample_fastq_reads) # 0

\* a squeezed scalar has none of the methods of a Series
SqueezeRaises ==
    /\ AssertsPass
    /\ Squeezed(pvaluesfile.rows, ts_tv_file.rows)
    /\ AbundanceRaises("AttributeError", "object has no attribute", "")
    /\ UNCHANGED quicksort

\* the error of the loop, "" if none, for the means sorted by indexer
Looped(a, indexer) ==
    LoopError(a, [i \in 1..Len(a) |-> a[indexer[i]].name], 1, TTestVector(pvaluesfile.rows),
              round_nan = "raises ValueError")

\* the loop raises on a row: round() of a NaN, or a taxon without p-values
LoopRaises ==
    /\ AssertsPass
    /\ ~Squeezed(pvaluesfile.rows, ts_tv_file.rows)
    /\ \E a \in {MassVector(ts_tv_file.rows,
                             Int2Float(ParseFloat(total_sample_fastq_reads)))} :
          \E means \in {PosteriorAbundanceMean(a)} :
             \E indexer \in MeanArgsort(quicksort, means) :
                \E error \in {Looped(a, indexer)} :
                   /\ error # ""
                   /\ quicksort' = (means :> indexer) @@ quicksort
                   /\ AbundanceRaises(error, "", "")

\* the invocation runs to its end and writes the abundance file
WritesAbundances ==
    /\ AssertsPass
    /\ ~Squeezed(pvaluesfile.rows, ts_tv_file.rows)
    /\ \E a \in {MassVector(ts_tv_file.rows,
                             Int2Float(ParseFloat(total_sample_fastq_reads)))} :
          \E means \in {PosteriorAbundanceMean(a)} :
             \E indexer \in MeanArgsort(quicksort, means) :
                /\ Looped(a, indexer) = ""
                /\ quicksort' = (means :> indexer) @@ quicksort
                /\ \E frame \in {PosteriorAbundance(a, indexer,
                                                     TTestVector(pvaluesfile.rows))} :
                      /\ posterior_abundance' = frame
                      /\ sample_abundance' = WriteFile(sample_abundance, AbundanceCsv(frame))
    /\ result' = Returned
    /\ calls' = calls + 1
    /\ UNCHANGED <<ts_tv_file, pvaluesfile, total_sample_fastq_reads, round_nan,
                   identification_vars>>

\* one invocation of calculate_dirichlet_abundances
calculate_dirichlet_abundances ==
    /\ argv' = AbundanceArgv
    /\ \/ AssignmentAssertFails
       \/ PValuesAssertFails
       \/ TotalReadsAssertFails
       \/ SqueezeRaises
       \/ LoopRaises
       \/ WritesAbundances

NextAbundance == calls < 1 /\ calculate_dirichlet_abundances

SpecAbundance == InitAbundance /\ [][NextAbundance]_vars

\* ------------------------------------ several invocations, one abundance file
\* the workflow runs the script again on the same output path, with the same
\* input files or after they were replaced: the small files it may find
LogAbundanceInputs == SmallAssignmentFiles \X PValuesFiles \X TotalReadsTexts

InitAbundanceLog ==
    /\ \E inputs \in LogAbundanceInputs :
          /\ ts_tv_file = inputs[1]
          /\ pvaluesfile = inputs[2]
          /\ total_sample_fastq_reads = inputs[3]
    /\ sample_abundance = <<>>
    /\ posterior_abundance = <<>>
    /\ round_nan \in {"raises ValueError", "returns nan"}
    /\ ts_tv_matrix_file = EmptyTsTvFile
    /\ params_file = EmptyParamsFile
    /\ outputfile = <<>>
    /\ mismatch_df = <<>>
    /\ result = Idle
    /\ stdout = <<>>
    /\ calls = 0
    /\ argv = NoInputs
    /\ quicksort = Unsorted
    /\ NotStarted

\* the input files are replaced between two invocations: after one that ran
\* on the files as they are, and before another
StageAbundance ==
    /\ 0 < calls /\ calls < MaxCalls
    /\ argv = AbundanceArgv
    /\ \E inputs \in LogAbundanceInputs :
          /\ ts_tv_file' = inputs[1]
          /\ pvaluesfile' = inputs[2]
          /\ total_sample_fastq_reads' = inputs[3]
    /\ UNCHANGED <<sample_abundance, posterior_abundance, round_nan, result, calls, argv,
                   quicksort, identification_vars>>

NextAbundanceLog ==
    \/ StageAbundance
    \/ calls < MaxCalls /\ calculate_dirichlet_abundances

SpecAbundanceLog == InitAbundanceLog /\ [][NextAbundanceLog]_vars

\* ================================================================== claims
Done == result.status = "returned"

\* the data lines of the last block of the result file
RECURSIVE LastBlock(_)
LastBlock(lines) ==
    IF lines = <<>> \/ lines[Len(lines)].header THEN <<>>
    ELSE LastBlock(SubSeq(lines, 1, Len(lines) - 1)) \o <<lines[Len(lines)]>>

Written == LastBlock(outputfile)
TheRows == ts_tv_matrix_file.rows
TheParams == params_file.params

\* R, n_t and the observed sums, counted on the lines of the input table
R == Cardinality({TheRows[k].Read_ID : k \in 1..Len(TheRows)})
LinesOf(t) == {k \in 1..Len(TheRows) : TheRows[k].Taxon = t}

RECURSIVE Observed(_, _)
Observed(S, col) ==
    IF S = {} THEN 0
    ELSE LET k == CHOOSE x \in S : TRUE IN TheRows[k][col] + Observed(S \ {k}, col)

\* a float that carries the exact value of a positive real: finite and not 0
ExactValue(x) == IsFinite(x) /\ x.n > 0

PowT(i, j) == FPow(TheParams.delta_t, Written[j].Ts - Written[i].Ts)
PowV(i, j) == FPow(TheParams.delta_v, Written[j].Tv - Written[i].Tv)
Term(i, j) == FMul(PowT(i, j), PowV(i, j))

RECURSIVE SumTerms(_, _)
SumTerms(i, j) == IF j = 0 THEN Zero ELSE FAdd(SumTerms(i, j - 1), Term(i, j))

\* C1: every taxon of the table has a row, and the posterior of row i is
\* 1 / SUM_j delta_t^(Ts_j - Ts_i) * delta_v^(Tv_j - Tv_i) over all the rows j,
\* the term j = i being 1 and the sum at least 1.  The powers, the products and
\* the sum are positive reals, so the equality needs each of them to be carried
\* exactly.
C1_PosteriorIsInverseOfSum ==
    Done =>
        /\ {Written[i].Taxon : i \in 1..Len(Written)} = {TheRows[k].Taxon : k \in 1..Len(TheRows)}
        /\ \A i \in 1..Len(Written) :
              /\ \A j \in 1..Len(Written) :
                    ExactValue(PowT(i, j)) /\ ExactValue(PowV(i, j)) /\ ExactValue(Term(i, j))
              /\ Term(i, i) = One
              /\ ExactValue(SumTerms(i, Len(Written)))
              /\ ~FLess(SumTerms(i, Len(Written)), One)
              /\ Written[i].Posterior = FDivOne(SumTerms(i, Len(Written)))

\* C2: the Ts and Tv totals of every taxon t are its observed sums plus
\* (R - n_t) * (missing value + 1)
C2_TotalsImputeMissingReads ==
    Done =>
        LET W == Written
        IN \A i \in 1..Len(W) :
              LET t == W[i].Taxon
                  n_t == Cardinality(LinesOf(t))
              IN /\ W[i].Ts = Observed(LinesOf(t), "Ts") + (R - n_t) * (TheParams.ts_missing_val + 1)
                 /\ W[i].Tv = Observed(LinesOf(t), "Tv") + (R - n_t) * (TheParams.tv_missing_val + 1)

\* a taxon that misses a read got the penalty on both totals
C2_Witness ==
    /\ Done
    /\ \E i \in 1..Len(Written) :
          /\ Cardinality(LinesOf(Written[i].Taxon)) < R
          /\ TheParams.ts_missing_val > 0
          /\ Written[i].Ts > Observed(LinesOf(Written[i].Taxon), "Ts") + 1
          /\ Written[i].Tv > Observed(LinesOf(Written[i].Taxon), "Tv")

\* C3: on a table with lines, every posterior is a finite number in (0, 1]
C3_PosteriorInUnitInterval ==
    Done /\ TheRows # <<>> =>
        \A i \in 1..Len(Written) :
            /\ IsFinite(Written[i].Posterior)
            /\ Written[i].Posterior.n > 0
            /\ ~FLess(One, Written[i].Posterior)

\* row i of W has both totals strictly below those of every other row
Lowest(W, i) ==
    \A j \in 1..Len(W) : j # i => W[i].Ts < W[j].Ts /\ W[i].Tv < W[j].Tv

RowOf(W, t) == CHOOSE i \in 1..Len(W) : W[i].Taxon = t

Scenario ==
    /\ TheRows = ScenarioTable
    /\ TheParams.delta_t = Frac(1, 20)
    /\ TheParams.delta_v = Frac(1, 10)

MaxPosterior(W, i) == \A j \in 1..Len(W) : ~FLess(W[i].Posterior, W[j].Posterior)

\* a taxon with both totals strictly lowest has the maximum posterior, and in
\* the scenario posterior(A) > posterior(B)
LowestIsMax(W) ==
    /\ \A i \in 1..Len(W) : Lowest(W, i) => MaxPosterior(W, i)
    /\ Scenario => FLess(W[RowOf(W, 2)].Posterior, W[RowOf(W, 1)].Posterior)

\* C4 as stated: for every delta_t, delta_v > 0 a taxon with both totals
\* strictly lowest has the maximum posterior, and in the scenario
\* posterior(A) > posterior(B)
C4_LowestTotalsHaveMaxPosterior == Done => LowestIsMax(Written)

DeltasAtMostOne == ~FLess(One, TheParams.delta_t) /\ ~FLess(One, TheParams.delta_v)

\* C4 amended: the same for delta_t <= 1 and delta_v <= 1
C4_LowestTotalsHaveMaxPosteriorBelowOne == Done /\ DeltasAtMostOne => LowestIsMax(Written)

\* a taxon with both totals strictly lowest has a finite posterior above
\* another's, which is not 0
C4_Witness ==
    /\ Done
    /\ DeltasAtMostOne
    /\ \E i, j \in 1..Len(Written) :
          /\ Lowest(Written, i)
          /\ FLess(Written[j].Posterior, Written[i].Posterior)
          /\ ExactValue(Written[j].Posterior)

\* C5: consecutive rows of a block have non-increasing posteriors
C5_RowsOrderedByPosteriorDescending ==
    Done =>
        LET W == Written
        IN \A k \in 1..(Len(W) - 1) : ~FLess(W[k].Posterior, W[k + 1].Posterior)

\* the sort moved a taxon with a later name before one with an earlier name
C5_Witness ==
    /\ Done
    /\ Len(Written) >= 2
    /\ FLess(Written[2].Posterior, Written[1].Posterior)
    /\ Written[1].Taxon > Written[2].Taxon

\* C6: rows with equal posteriors come in taxon name order
C6_TiesOrderedByTaxonName ==
    Done =>
        \A k \in 1..(Len(Written) - 1) :
            Written[k].Posterior = Written[k + 1].Posterior =>
                Written[k].Taxon < Written[k + 1].Taxon

\* the number of header lines of the result file
RECURSIVE Headers(_)
Headers(lines) ==
    IF lines = <<>> THEN 0
    ELSE (IF Head(lines).header THEN 1 ELSE 0) + Headers(Tail(lines))

\* C7: an invocation that completes leaves the result file as it was, followed
\* by its own block; any other step leaves the file as it was
C7_AppendOnly ==
    [][ IF calls' = calls + 1 /\ result'.status = "returned"
        THEN outputfile' = outputfile \o ToCsv(mismatch_df')
        ELSE outputfile' = outputfile ]_vars

\* two invocations completed and the file holds two blocks with data lines
C7_Witness ==
    /\ calls = 2
    /\ Done
    /\ Headers(outputfile) = 2
    /\ ~outputfile[2].header
    /\ Written # <<>>
    /\ Written # SubSeq(outputfile, 2, 1 + Len(Written))

\* C8: an invocation that finds the ts_tv file or the parameters file empty
\* raises an AssertionError that names that file, computes no posterior and
\* leaves the result file as it was
C8_EmptyInputFails ==
    [][ calls' = calls + 1 /\ (ts_tv_matrix_file.empty \/ params_file.empty) =>
            /\ result'.status = "raised"
            /\ result'.error = "AssertionError"
            /\ result'.file = (IF ts_tv_matrix_file.empty THEN "ts_tv_matrix_file"
                               ELSE "params_file")
            /\ mismatch_df' = <<>>
            /\ outputfile' = outputfile ]_vars

\* an invocation failed on an empty ts_tv file after an earlier one had written
\* its block
C8_Witness ==
    /\ result.status = "raised"
    /\ result.file = "ts_tv_matrix_file"
    /\ ts_tv_matrix_file.empty
    /\ Headers(outputfile) = 1
    /\ Len(outputfile) > 1

\* C9: an invocation on a table without reads raises an error and writes
\* nothing
C9_ZeroReadsFail ==
    calls > 0 /\ ~ts_tv_matrix_file.empty /\ ~params_file.empty /\ R = 0 =>
        result.status = "raised" /\ outputfile = <<>>

Totals == Aggregate(TheRows, TheParams, R, 0, "", "")

Denominator(T, i) ==
    SumSkipNa([j \in 1..Len(T) |->
                  FMul(FPow(TheParams.delta_t, T[j].Ts - T[i].Ts),
                       FPow(TheParams.delta_v, T[j].Tv - T[i].Tv))])

Degenerate(x) == IsNaN(x) \/ IsInf(x) \/ IsZero(x)

\* C12: an invocation on a table for which the denominator of some taxon is 0,
\* infinite or NaN raises an error and writes nothing
C12_DegenerateDenominatorFails ==
    /\ calls > 0
    /\ ~ts_tv_matrix_file.empty
    /\ ~params_file.empty
    /\ LET T == Totals IN \E i \in 1..Len(T) : Degenerate(Denominator(T, i))
    => result.status = "raised" /\ outputfile = <<>>

\* the processes of S in every order
Arrangements(S) ==
    {q \in [1..Cardinality(S) -> S] : \A i, j \in 1..Cardinality(S) : i # j => q[i] # q[j]}

\* what process p has written of its block
WrittenBy(p) ==
    SubSeq(ToCsv(frames[p]), 1, Len(ToCsv(frames[p])) - Len(buffer[p]))

RECURSIVE Blocks(_)
Blocks(q) == IF q = <<>> THEN <<>> ELSE WrittenBy(Head(q)) \o Blocks(Tail(q))

\* C13: with the append steps serialized, the result file is at every moment
\* the blocks of the processes that have appended, one after the other in some
\* order, each one whole, followed by what the process in its append step has
\* written of its block; when all processes are through, the file holds
\* exactly one whole block per process that completed
C13_SerializedAppendsKeepBlocksWhole ==
    LET appended == {p \in Procs : pc[p] \in {"open", "done"}}
    IN \E q \in Arrangements(appended) :
          /\ outputfile = Blocks(q)
          /\ \A i \in 1..(Len(q) - 1) : pc[q[i]] = "done" /\ WrittenBy(q[i]) = ToCsv(frames[q[i]])
          /\ \A i \in 1..Len(q) : pc[q[i]] = "done" => WrittenBy(q[i]) = ToCsv(frames[q[i]])

\* all processes completed, each with a block of two rows or more, and the
\* file does not begin with the block of the first process
C13_Witness ==
    /\ \A p \in Procs : pc[p] = "done" /\ Len(frames[p]) >= 2
    /\ \E p \in Procs :
          /\ frames[p] # frames[1]
          /\ SubSeq(outputfile, 1, Len(ToCsv(frames[p]))) = ToCsv(frames[p])

\* ----------------------------------------------------- abundance claims
TheAssignments == ts_tv_file.rows
TotalSampleReads == ParseFloat(total_sample_fastq_reads)

\* the reads of the assignment table and the lines of one read
ReadsWithAnyAlignment == {TheAssignments[k].Read_ID : k \in 1..Len(TheAssignments)}
AssignmentsOf(r) == {k \in 1..Len(TheAssignments) : TheAssignments[k].Read_ID = r}

\* the sum of the weights of a set of lines
RECURSIVE WeightOf(_)
WeightOf(S) ==
    IF S = {} THEN Zero
    ELSE LET k == CHOOSE x \in S : TRUE
         IN RAdd(TheAssignments[k].Dirichlet_Assignment, WeightOf(S \ {k}))

\* the abundance file was written: its data lines, and those of one category
Abundances == Tail(sample_abundance)
LinesNamed(name) == {i \in 1..Len(Abundances) : Abundances[i].Taxon = name}
MassWritten(name) == Abundances[CHOOSE i \in LinesNamed(name) : TRUE].Dirichlet_Read_Num

\* C14: the mass written for Dark_Matter is the number of the total reads file
\* minus the number of distinct Read_IDs of the assignment table
C14_DarkMatterIsTotalMinusAligned ==
    Done =>
        /\ Cardinality(LinesNamed("Dark_Matter")) = 1
        /\ MassWritten("Dark_Matter") =
               Rational(TotalSampleReads - Cardinality(ReadsWithAnyAlignment), 1)

\* a table with reads and a total above their number
C14_Witness ==
    /\ Done
    /\ Cardinality(ReadsWithAnyAlignment) >= 2
    /\ MassWritten("Dark_Matter").n > 0

\* C15: an invocation on a table with more distinct reads than the total read
\* count raises an error and writes no abundance file
C15_MoreReadsThanTotalFails ==
    /\ calls > 0
    /\ ~ts_tv_file.empty
    /\ pvaluesfile.rows # <<>>
    /\ total_sample_fastq_reads # <<>>
    /\ Cardinality(ReadsWithAnyAlignment) > TotalSampleReads
    => result.status = "raised" /\ sample_abundance = <<>>

\* C16: the mass written for Grey_Matter is the number of distinct reads whose
\* weights, summed over all their lines, are exactly 0
C16_GreyMatterCountsZeroWeightReads ==
    Done =>
        /\ Cardinality(LinesNamed("Grey_Matter")) = 1
        /\ MassWritten("Grey_Matter") =
               Rational(Cardinality({r \in ReadsWithAnyAlignment :
                                        WeightOf(AssignmentsOf(r)) = Zero}), 1)

\* one read with two lines of weight 0, another read with a line of weight 0
\* and a positive sum
C16_Witness ==
    /\ Done
    /\ MassWritten("Grey_Matter") = One
    /\ \E r \in ReadsWithAnyAlignment :
          /\ Cardinality(AssignmentsOf(r)) = 2
          /\ WeightOf(AssignmentsOf(r)) = Zero
    /\ \E r \in ReadsWithAnyAlignment :
          /\ WeightOf(AssignmentsOf(r)) # Zero
          /\ \E k \in AssignmentsOf(r) : TheAssignments[k].Dirichlet_Assignment = Zero

\* the sum of one column of the data lines 1..n of the abundance file
RECURSIVE ColumnSum(_, _)
ColumnSum(col, n) ==
    IF n = 0 THEN Zero ELSE RAdd(ColumnSum(col, n - 1), Abundances[n][col])

\* C17: the masses written for all the categories, the named taxa, Grey_Matter
\* and Dark_Matter, sum to the number of the total reads file
C17_MassesSumToTotalReads ==
    Done => ColumnSum("Dirichlet_Read_Num", Len(Abundances)) = Rational(TotalSampleReads, 1)

\* the categories and their masses, counted on the lines of the input table
NamedTaxa == {TheAssignments[k].Taxon : k \in 1..Len(TheAssignments)}
Categories == NamedTaxa \cup {"Grey_Matter", "Dark_Matter"}

ExpectedMass(name) ==
    IF name = "Dark_Matter"
    THEN Rational(TotalSampleReads - Cardinality(ReadsWithAnyAlignment), 1)
    ELSE IF name = "Grey_Matter"
    THEN Rational(Cardinality({r \in ReadsWithAnyAlignment :
                                  WeightOf(AssignmentsOf(r)) = Zero}), 1)
    ELSE WeightOf({k \in 1..Len(TheAssignments) : TheAssignments[k].Taxon = name})

RECURSIVE ExpectedSum(_)
ExpectedSum(S) ==
    IF S = {} THEN Zero
    ELSE LET name == CHOOSE x \in S : TRUE
         IN RAdd(ExpectedMass(name), ExpectedSum(S \ {name}))

\* C18: the file has one line per category, and the mean abundance of category
\* i is (a_i + 1) / (b + k), b the sum of the masses and k the number of
\* categories
C18_MeanIsSmoothedShare ==
    Done =>
        LET k == Cardinality(Categories)
            b == ExpectedSum(Categories)
        IN /\ Len(Abundances) = k
           /\ {Abundances[i].Taxon : i \in 1..Len(Abundances)} = Categories
           /\ \A i \in 1..Len(Abundances) :
                 Abundances[i].Mean_Posterior_Abundance =
                     RDiv(RAdd(ExpectedMass(Abundances[i].Taxon), One), RAdd(b, Rational(k, 1)))

\* two named taxa, one of mass 1/2, a positive Dark_Matter mass and means that
\* are numbers
C18_Witness ==
    /\ Done
    /\ Len(Abundances) = 4
    /\ MassWritten("Dark_Matter").n > 0
    /\ \E i \in 1..Len(Abundances) :
          /\ Abundances[i].Dirichlet_Read_Num = Frac(1, 2)
          /\ IsFinite(Abundances[i].Mean_Posterior_Abundance)
          /\ Abundances[i].Mean_Posterior_Abundance.d > 1

\* C19: every mean abundance that is written lies strictly between 0 and 1
C19_MeansInOpenUnitInterval ==
    Done =>
        \A i \in 1..Len(Abundances) :
            /\ IsFinite(Abundances[i].Mean_Posterior_Abundance)
            /\ RLess(Zero, Abundances[i].Mean_Posterior_Abundance)
            /\ RLess(Abundances[i].Mean_Posterior_Abundance, One)

\* C20: the mean abundances of the lines of the file are numbers and sum to 1
C20_MeansSumToOne ==
    Done =>
        /\ \A i \in 1..Len(Abundances) : IsFinite(Abundances[i].Mean_Posterior_Abundance)
        /\ ColumnSum("Mean_Posterior_Abundance", Len(Abundances)) = One

\* a read-count bound of the interval is a number: round() of a quantile of
\* Beta(alpha, beta) times b
IsReadNum(x, q, alpha, beta, b) ==
    IF IsNaN(x) THEN FALSE
    ELSE x = [k |-> "round", ci |-> [k |-> "ppf", q |-> q, alpha |-> alpha, beta |-> beta],
              times |-> b]

\* C21: in every line of the abundance file, Minimum.Read.Num and
\* Maximum.Read.Num are numbers, round(lo * b) and round(hi * b) for the 0.025
\* and 0.975 quantiles lo and hi of Beta(a_i + 1, b + k - a_i - 1), the
\* distribution whose mean is the Mean_Posterior_Abundance of the line, so that
\* they can enclose round(Mean_Posterior_Abundance * b)
C21_IntervalContainsPointEstimate ==
    Done =>
        LET k == Rational(Len(Abundances), 1)
            b == ColumnSum("Dirichlet_Read_Num", Len(Abundances))
        IN \A i \in 1..Len(Abundances) :
              LET alpha == RAdd(Abundances[i].Dirichlet_Read_Num, One)
                  beta == RSub(RSub(RAdd(b, k), Abundances[i].Dirichlet_Read_Num), One)
              IN /\ IsReadNum(Abundances[i].Minimum_Read_Num, "0.025", alpha, beta, b)
                 /\ IsReadNum(Abundances[i].Maximum_Read_Num, "0.975", alpha, beta, b)
                 /\ Abundances[i].Mean_Posterior_Abundance = RDiv(alpha, RAdd(alpha, beta))

\* the lines of the input table of one taxon
AssignmentsTo(name) == {k \in 1..Len(TheAssignments) : TheAssignments[k].Taxon = name}

\* C22: for every taxon named in the input table, the abundance file has one
\* line of that name, and its Dirichlet.Read.Num is the sum of the weights of
\* the lines of that taxon over all reads
C22_MassOfRowIsMassOfItsTaxon ==
    Done =>
        \A name \in NamedTaxa :
            /\ Cardinality(LinesNamed(name)) = 1
            /\ MassWritten(name) = WeightOf(AssignmentsTo(name))

\* the species of the p-value table
SpeciesWithPValues == {pvaluesfile.rows[k].species : k \in 1..Len(pvaluesfile.rows)}

\* the three files have content, the tables have two reads, two taxa and two
\* species or more, and the table has no more reads than the total reads file
\* counts
WellFormedInputs ==
    /\ ~ts_tv_file.empty
    /\ total_sample_fastq_reads # <<>>
    /\ Cardinality(SpeciesWithPValues) >= 2
    /\ Cardinality(ReadsWithAnyAlignment) >= 2
    /\ Cardinality(NamedTaxa) >= 2
    /\ Cardinality(ReadsWithAnyAlignment) <= TotalSampleReads

\* C23: an invocation on such inputs completes, and the line of every category
\* that has no row in the p-value table, a pseudo-taxon or a named taxon,
\* carries NaN as its Fisher.Exact.Pvalue
C23_NoPValuesGivesNaN ==
    calls > 0 /\ WellFormedInputs =>
        /\ Done
        /\ \A name \in Categories \ SpeciesWithPValues :
              /\ LinesNamed(name) # {}
              /\ \A i \in LinesNamed(name) : IsNaN(Abundances[i].Fisher_Exact_Pvalue)

\* the input files of zero size, by the name of their argument, and the
\* message of the assert on each
EmptyInputs ==
    {name \in {"ts_tv_file"} : ts_tv_file.empty}
    \cup {name \in {"pvaluesfile"} : pvaluesfile.rows = <<>>}
    \cup {name \in {"total_sample_fastq_reads"} : total_sample_fastq_reads = <<>>}

EmptyMessage(file) ==
    IF file = "ts_tv_file" THEN "The ts_tv count file is empty"
    ELSE IF file = "pvaluesfile" THEN "The t-test p values file is empty"
    ELSE "The total fastq reads file is empty"

\* C24: an invocation that finds one of its three input files empty raises an
\* AssertionError whose message says that an empty one of them is empty and
\* names it, without sorting or building a frame, and leaves the abundance file
\* as it was: absent if absent, with its lines if present
C24_EmptyInputFailsBeforeWriting ==
    [][calls' = calls + 1 /\ EmptyInputs # {} =>
          /\ result'.status = "raised"
          /\ result'.error = "AssertionError"
          /\ result'.file \in EmptyInputs
          /\ result'.message = EmptyMessage(result'.file)
          /\ quicksort' = quicksort
          /\ posterior_abundance' = <<>>
          /\ sample_abundance' = sample_abundance]_vars

\* an invocation wrote the abundance file, and a later one found the total
\* reads file empty: the file is still there
C24_Witness ==
    /\ calls >= 2
    /\ result.status = "raised"
    /\ result.file = "total_sample_fastq_reads"
    /\ total_sample_fastq_reads = <<>>
    /\ Len(sample_abundance) >= 3
    /\ argv = AbundanceArgv

\* the table has reads, and the weights of every one of them sum to 0
EveryReadSumsToZero ==
    /\ ReadsWithAnyAlignment # {}
    /\ \A r \in ReadsWithAnyAlignment : WeightOf(AssignmentsOf(r)) = Zero

\* the lines of the abundance file that are not those of the two pseudo-taxa
LinesOfNamedTaxa ==
    {i \in 1..Len(Abundances) : Abundances[i].Taxon \notin {"Grey_Matter", "Dark_Matter"}}

\* mass 0 and mean 1 / (b + k) on every such line
NamedLinesAreEmpty ==
    LET k == Cardinality(Categories)
        b == ExpectedSum(Categories)
    IN \A i \in LinesOfNamedTaxa :
          /\ Abundances[i].Dirichlet_Read_Num = Zero
          /\ Abundances[i].Mean_Posterior_Abundance = RDiv(One, RAdd(b, Rational(k, 1)))

OneLinePerCategory(file) ==
    /\ Len(file) = 1 + Cardinality(Categories)
    /\ file[1].header
    /\ {file[i].Taxon : i \in 2..Len(file)} = Categories
    /\ \A i \in 2..Len(file) : ~file[i].header

\* C26: an invocation on the inputs on which the invocation before it ran to
\* its end, with the same output path, runs to its end too and leaves the
\* abundance file as that invocation left it, line for line: one header line
\* and one line per category, nothing added to what was there
C26_SecondRunLeavesSameFile ==
    [][calls' = calls + 1 /\ Done /\ argv = AbundanceArgv =>
          /\ result'.status = "returned"
          /\ sample_abundance' = sample_abundance
          /\ OneLinePerCategory(sample_abundance')]_vars

\* two invocations, the second on inputs with two named taxa that tie, which
\* ran to its end; the sorting routine has met one vector of means in all
C26_Witness ==
    /\ calls = 2
    /\ Done
    /\ argv = AbundanceArgv
    /\ Cardinality(DOMAIN quicksort) = 1
    /\ Cardinality(NamedTaxa) = 2
    /\ OneLinePerCategory(sample_abundance)
    /\ sample_abundance = AbundanceCsv(posterior_abundance)

\* the arithmetic of the invocation that wrote the block W was exact: every
\* power and every product of the loop is a positive number inside the float
\* range, and so is every posterior, the inverse of the sum of the products
ExactArithmetic(W) ==
    /\ \A i \in 1..Len(W) : ExactValue(W[i].Posterior)
    /\ \A i, j \in 1..Len(W) :
          \E t \in {FPow(TheParams.delta_t, W[j].Ts - W[i].Ts)},
             v \in {FPow(TheParams.delta_v, W[j].Tv - W[i].Tv)} :
              ExactValue(t) /\ ExactValue(v) /\ ExactValue(FMul(t, v))

\* the sum of the posteriors of the rows 1..n of the block W
RECURSIVE PosteriorSum(_, _)
PosteriorSum(W, n) ==
    IF n = 0 THEN Zero ELSE FAdd(PosteriorSum(W, n - 1), W[n].Posterior)

\* C27: an invocation on a table with lines and delta_t, delta_v > 0 whose
\* arithmetic is exact writes posteriors that sum to exactly 1: they are a
\* normalized distribution over the taxa of the table
C27_PosteriorsSumToOne ==
    Done /\ TheRows # <<>> /\ TheParams.delta_t.n > 0 /\ TheParams.delta_v.n > 0 =>
        \E W \in {Written} :
            ExactArithmetic(W) => PosteriorSum(W, Len(W)) = One

\* two taxa or more with different posteriors, none of them 0
C27_Witness ==
    /\ Done
    /\ Len(Written) >= 2
    /\ ExactArithmetic(Written)
    /\ \E i, j \in 1..Len(Written) : FLess(Written[i].Posterior, Written[j].Posterior)
    /\ PosteriorSum(Written, Len(Written)) = One

\* a bound of the interval is the quantile q of Beta(alpha, beta), a number of
\* [0, 1]
IsQuantile(x, q, alpha, beta) ==
    IF IsNaN(x) THEN FALSE
    ELSE x = [k |-> "ppf", q |-> q, alpha |-> alpha, beta |-> beta]

\* C28: for every line of the abundance file, the two shape parameters
\* a_i + 1 and b + k - a_i - 1 are strictly positive, the bounds of the line
\* are the 0.025 and the 0.975 quantile of that Beta distribution (numbers with
\* 0 <= lo <= hi <= 1) and b is not negative, so that the two read-count bounds
\* round(lo * b) <= round(hi * b) are numbers that are not negative
C28_ShapesPositiveBoundsOrdered ==
    Done =>
        LET k == Rational(Len(Abundances), 1)
            b == ColumnSum("Dirichlet_Read_Num", Len(Abundances))
        IN /\ ~RLess(b, Zero)
           /\ \A i \in 1..Len(Abundances) :
                 LET alpha == RAdd(Abundances[i].Dirichlet_Read_Num, One)
                     beta == RSub(RSub(RAdd(b, k), Abundances[i].Dirichlet_Read_Num), One)
                 IN /\ RLess(Zero, alpha)
                    /\ RLess(Zero, beta)
                    /\ IsQuantile(Abundances[i].CI_lower, "0.025", alpha, beta)
                    /\ IsQuantile(Abundances[i].CI_upper, "0.975", alpha, beta)
                    /\ ~IsNaN(Abundances[i].Minimum_Read_Num)
                    /\ ~IsNaN(Abundances[i].Maximum_Read_Num)

\* the abundance file has a line of that name and that mass
HasLine(name, mass) ==
    \E i \in 1..Len(Abundances) :
        Abundances[i].Taxon = name /\ Abundances[i].Dirichlet_Read_Num = mass

\* C29: the abundance file has one line per distinct taxon of the input table
\* and two more, k = number of distinct taxa + 2: a line for every input taxon
\* with the sum of the weights of that taxon, whatever its name, a Dark_Matter
\* line with the total minus the reads of the table, and a Grey_Matter line
\* with the number of reads whose weights sum to 0
C29_PseudoTaxaKeptApartFromInputTaxa ==
    Done =>
        /\ Len(Abundances) = Cardinality(NamedTaxa) + 2
        /\ \A name \in NamedTaxa : HasLine(name, WeightOf(AssignmentsTo(name)))
        /\ HasLine("Dark_Matter",
                   Rational(TotalSampleReads - Cardinality(ReadsWithAnyAlignment), 1))
        /\ HasLine("Grey_Matter",
                   Rational(Cardinality({r \in ReadsWithAnyAlignment :
                                            WeightOf(AssignmentsOf(r)) = Zero}), 1))

\* the lines that a step adds at the end of the result file
Appended(before, after) == SubSeq(after, Len(before) + 1, Len(after))

====
